---- MODULE Spec2Model ----
(***************************************************************************)
(* Pitch-track-to-note transcription engine of the ROSVOT MIDI pipeline:   *)
(*   module/sub/c_rosvot_to_midi.py   MIDIConverter (bridger, segmenter,    *)
(*                                    merger)                               *)
(*   module/sub/d_analyze_midi_results.py   MIDIAnalyzer (coverage)         *)
(*                                                                         *)
(* Units.  Times are integers in milliseconds.  Frequencies are integers   *)
(* in half-Hertz (Hz(440) = 880), so that the average of two integer-Hz    *)
(* frames, which the bridger computes, is represented exactly.             *)
(***************************************************************************)
EXTENDS Integers, Sequences, FiniteSets, TLC

VARIABLES
    \* ---- MIDIConverter.create_midi_from_pitch ----
    pitch_data,            \* the caller's F0 array (argument)
    time_per_frame,        \* seconds per frame chosen by the calibrator (ms)
    min_note_duration,     \* MIN_NOTE_S (ms)
    max_gap_frames,        \* int((BRIDGE_GAP_MS/1000)/time_per_frame)
    force_split_phonemes,  \* FORCE_SPLIT_PHONEMES label set
    phonemes,              \* rosvot_metadata["phonemes"]
    f0,                    \* the bridged copy the scan runs over
    i,                     \* 0-based index of the frame the scan is at
    current_note,          \* pitch of the open run, or None
    current_start_time,    \* start time of the open run
    notes,                 \* instrument.notes
    pc,                    \* position inside create_midi_from_pitch
    ret,                   \* value returned by create_midi_from_pitch
    \* ---- MIDIConverter._merge_short_splits on its own ----
    m_in,                  \* the NoteSequence handed to the merger
    m_gap,                 \* gap_thresh
    m_once,                \* merge(m_in)
    m_twice,               \* merge(merge(m_in))
    m_pc,
    \* ---- MIDIAnalyzer ----
    ts_file,               \* contents of the timestamps file
    midi_file,             \* notes of the MIDI file
    timestamps_data,       \* self.timestamps_data (None until loaded)
    midi_notes,            \* self.midi_notes
    analysis_results,      \* self.analysis_results / returned dict
    a_pc,
    \* ---- repair_micro_gaps_with_phonemes (reads ts_file, rewrites midi_file) ----
    rep_before,            \* the notes of the MIDI file before the pass
    rep_inserted,          \* the notes appended at line 195, in order
    rep_ret,               \* value returned by repair_micro_gaps_with_phonemes
    rep_pc,
    \* ---- MIDIConverter._infer_time_per_frame ----
    cal_frames,            \* len(pitch)
    cal_wav,               \* the audio probe: no "wav_fn", a duration, or a failure
    cal_ret,               \* the returned seconds per frame
    cal_pc,
    \* ---- FullPipeline.run_complete_pipeline ----
    stage_outcome,         \* what each stage does on this input
    results,               \* the results dict
    started,               \* the stages called so far, in order
    p_pc

segVars == <<pitch_data, time_per_frame, min_note_duration, max_gap_frames,
             force_split_phonemes, phonemes, f0, i, current_note,
             current_start_time, notes, pc, ret>>
mergeVars == <<m_in, m_gap, m_once, m_twice, m_pc>>
anaVars == <<ts_file, midi_file, timestamps_data, midi_notes,
             analysis_results, a_pc>>
repVars == <<rep_before, rep_inserted, rep_ret, rep_pc>>
calVars == <<cal_frames, cal_wav, cal_ret, cal_pc>>
pipeVars == <<stage_outcome, results, started, p_pc>>
vars == <<segVars, mergeVars, anaVars, repVars, calVars, pipeVars>>

----------------------------------------------------------------------------
(* Bounds of the model *)

MaxFrames == 4          \* longest enumerated frame track
MaxGap == 2             \* largest max_gap_frames drawn
MaxMergeNotes == 3      \* longest NoteSequence handed to the merger alone
MaxAnaNotes == 2        \* longest NoteSequence handed to the analyzer
MaxAnaPhonemes == 2     \* longest phoneme tier handed to the analyzer

----------------------------------------------------------------------------
(* Helpers *)

Min(a, b) == IF a <= b THEN a ELSE b
Max(a, b) == IF a >= b THEN a ELSE b
Abs(a) == IF a >= 0 THEN a ELSE -a

Rep(x, n) == [k \in 1..n |-> x]

RECURSIVE SumSeq(_)
SumSeq(s) == IF Len(s) = 0 THEN 0 ELSE Head(s) + SumSeq(Tail(s))

Hz(h) == 2 * h          \* a frequency in Hertz, in the model's half-Hz unit

Note(p, s, e, v) == [pitch |-> p, start |-> s, end |-> e, velocity |-> v]

None == -1              \* current_note = None (no pitch is negative)

----------------------------------------------------------------------------
(* MIDIConverter.hz_to_midi_note                                           *)

\* SemitoneHz[p - 44], for the pitches p = 45..81, is the least half-Hz value
\* h with 69 + 12*log2(h/880) >= p, i.e. ceil(880 * 2^((p-69)/12)).
SemitoneHz ==
    << 220, 234, 247, 262, 278, 294, 312, 330, 350, 370, 392, 416,
       440, 467, 494, 524, 555, 588, 623, 660, 699, 740, 784, 831,
       880, 933, 988, 1047, 1109, 1175, 1245, 1319, 1397, 1480, 1568,
       1662, 1760 >>

\* int(69 + 12*log2(hz/440)): int() truncates, which for the positive values
\* of the table's range is the floor.
TruncPitch(hz) ==
    LET below == {k \in DOMAIN SemitoneHz : SemitoneHz[k] <= hz}
    IN  44 + (CHOOSE k \in below : \A q \in below : q <= k)

hz_to_midi_note(hz) == IF hz <= 0 THEN 0 ELSE TruncPitch(hz)

----------------------------------------------------------------------------
(* MIDIConverter._bridge_unvoiced_gaps                                     *)

\* voiced = (f0 > 0).astype(np.int8)
VoicedMask(f) == [k \in 1..Len(f) |-> IF f[k] > 0 THEN 1 ELSE 0]

\* max(fill, 1e-6): 1 stands for the tiny positive value 1e-6, below every
\* positive frame value of the model.
MaxEps(fill) == IF fill > 0 THEN fill ELSE 1

\* Mutant of FillRun: the sum of the two boundary values, not their average.
FillRunSum(f, start, idx) ==
    LET left  == IF start - 1 >= 0 /\ f[start] > 0 THEN f[start] ELSE 0
        right == IF idx < Len(f) /\ f[idx + 1] > 0 THEN f[idx + 1] ELSE 0
        fill  == IF right = 0 THEN left
                 ELSE IF left = 0 THEN right
                 ELSE left + right
    IN  [k \in 1..Len(f) |->
            IF start + 1 <= k /\ k <= idx THEN MaxEps(fill) ELSE f[k]]

\* Mutant of FillRun: the slice starts one frame early, f0[start-1:idx].
FillRunFromLeft(f, start, idx) ==
    LET left  == IF start - 1 >= 0 /\ f[start] > 0 THEN f[start] ELSE 0
        right == IF idx < Len(f) /\ f[idx + 1] > 0 THEN f[idx + 1] ELSE 0
        fill  == IF right = 0 THEN left
                 ELSE IF left = 0 THEN right
                 ELSE (left + right) \div 2
    IN  [k \in 1..Len(f) |->
            IF start <= k /\ k <= idx THEN MaxEps(fill) ELSE f[k]]

\* The body of "if 0 < run <= max_gap_frames": f0[start:idx] = max(fill, 1e-6)
FillRun(f, start, idx) ==
    LET left  == IF start - 1 >= 0 /\ f[start] > 0 THEN f[start] ELSE 0
        right == IF idx < Len(f) /\ f[idx + 1] > 0 THEN f[idx + 1] ELSE 0
        fill  == IF right = 0 THEN left
                 ELSE IF left = 0 THEN right
                 ELSE (left + right) \div 2
    IN  [k \in 1..Len(f) |->
            IF start + 1 <= k /\ k <= idx THEN MaxEps(fill) ELSE f[k]]

\* Mutant of ShortRun: a run of exactly max_gap_frames frames is not bridged.
ShortRunStrict(run, mg) == 0 < run /\ run < mg

\* Line 290: "if 0 < run <= max_gap_frames"
ShortRun(run, mg) == 0 < run /\ run <= mg

\* The for loop: idx is the 0-based loop index, run and start its counters.
RECURSIVE BridgeLoop(_, _, _, _, _, _)
BridgeLoop(f, voiced, mg, idx, run, start) ==
    IF idx >= Len(f) THEN f
    ELSE IF voiced[idx + 1] = 0
         THEN BridgeLoop(f, voiced, mg, idx + 1, run + 1,
                         IF run = 0 THEN idx ELSE start)
         ELSE BridgeLoop(IF ShortRun(run, mg)
                            THEN FillRun(f, start, idx) ELSE f,
                         voiced, mg, idx + 1, 0, start)

\* Returns the new array (ret) and the caller's array after the call (arg):
\* the function works on f0.copy(), so the caller's array is untouched.
bridge_unvoiced_gaps(f, mg) ==
    [ret |-> BridgeLoop(f, VoicedMask(f), mg, 0, 0, -1), arg |-> f]

----------------------------------------------------------------------------
(* MIDIConverter._merge_short_splits                                       *)

\* Mutant of Mergeable: a rest of exactly gap_thresh is not merged.
MergeableStrict(n, prev, gap) ==
    n.pitch = prev.pitch /\ (n.start - prev.end) < gap

\* Line 309: "if n.pitch == prev.pitch and (n.start - prev.end) <= gap_thresh"
Mergeable(n, prev, gap) ==
    n.pitch = prev.pitch /\ (n.start - prev.end) <= gap

\* Mutant of MergeLoop: the note after an absorbed one is appended unchecked.
RECURSIVE MergeLoopPairs(_, _, _)
MergeLoopPairs(merged, rest, gap) ==
    IF Len(rest) = 0 THEN merged
    ELSE LET n == Head(rest)
             prev == merged[Len(merged)]
             ext == [merged EXCEPT ![Len(merged)].end = n.end]
             after == Tail(rest)
         IN  IF Mergeable(n, prev, gap)
             THEN IF Len(after) = 0 THEN ext
                  ELSE MergeLoopPairs(Append(ext, Head(after)), Tail(after), gap)
             ELSE MergeLoopPairs(Append(merged, n), Tail(rest), gap)

\* Lines 306-313: the loop over notes[1:], merged[-1] being the last kept note.
RECURSIVE MergeLoop(_, _, _)
MergeLoop(merged, rest, gap) ==
    IF Len(rest) = 0 THEN merged
    ELSE LET n == Head(rest)
             prev == merged[Len(merged)]
         IN  IF Mergeable(n, prev, gap)
             THEN MergeLoop([merged EXCEPT ![Len(merged)].end = n.end],
                            Tail(rest), gap)
             ELSE MergeLoop(Append(merged, n), Tail(rest), gap)

merge_short_splits(ns, gap) ==
    IF Len(ns) = 0 THEN ns ELSE MergeLoop(<<Head(ns)>>, Tail(ns), gap)

----------------------------------------------------------------------------
(* MIDIConverter.create_midi_from_pitch                                    *)

N == Len(f0)

\* Mutant of IsVoiced: a zero frame counts as voiced.
IsVoicedOrZero(hz) == hz >= 0

\* Line 377: "if pitch_hz > 0"
IsVoiced(hz) == hz > 0

current_time == i * time_per_frame
pitch_hz == f0[i + 1]
midi_note == hz_to_midi_note(pitch_hz)

\* Lines 381-387: a forced cut at a voiced frame.
ForceCutVoiced ==
    /\ force_split_phonemes # {}
    /\ \E k \in 1..Len(phonemes) :
          /\ Abs(phonemes[k][1] - current_time) <= time_per_frame
          /\ phonemes[k][3] \in force_split_phonemes

\* Lines 411-417: a forced cut at an unvoiced frame.
ForceCutUnvoiced ==
    /\ force_split_phonemes # {}
    /\ \E k \in 1..Len(phonemes) :
          /\ phonemes[k][1] >= current_time
          /\ phonemes[k][3] \in force_split_phonemes

\* Mutant of PitchChanged: every voiced frame counts as a change.
PitchChangedAlways == Abs(midi_note - current_note) >= 0

\* abs(midi_note - current_note) > 0.5
PitchChanged == 2 * Abs(midi_note - current_note) > 1

\* What the scan never writes: its configuration, and the other components.
cfgVars == <<pitch_data, time_per_frame, min_note_duration, max_gap_frames,
             force_split_phonemes, phonemes, mergeVars, anaVars, repVars,
             calVars, pipeVars>>

\* Line 368: pitch_data = self._bridge_unvoiced_gaps(pitch_data, ...)
BridgeGaps ==
    /\ pc = "bridge"
    /\ LET r == bridge_unvoiced_gaps(pitch_data, max_gap_frames)
       IN  /\ f0' = r.ret
           /\ pitch_data' = r.arg
    /\ i' = 0
    /\ current_note' = None
    /\ current_start_time' = 0
    /\ pc' = "scan"
    /\ UNCHANGED <<time_per_frame, min_note_duration, max_gap_frames,
                   force_split_phonemes, phonemes, notes, ret,
                   mergeVars, anaVars, repVars, calVars, pipeVars>>

\* Lines 389-392: a voiced frame with no open run opens one.
VoicedOpen ==
    /\ pc = "scan" /\ i < N
    /\ IsVoiced(pitch_hz)
    /\ current_note = None
    /\ current_note' = midi_note
    /\ current_start_time' = current_time
    /\ i' = i + 1
    /\ UNCHANGED <<cfgVars, f0, notes, pc, ret>>

\* A voiced frame of the open run's pitch, no forced cut: the run goes on.
VoicedContinue ==
    /\ pc = "scan" /\ i < N
    /\ IsVoiced(pitch_hz)
    /\ current_note # None
    /\ ~(PitchChanged \/ ForceCutVoiced)
    /\ i' = i + 1
    /\ UNCHANGED <<cfgVars, f0, current_note, current_start_time, notes, pc, ret>>

\* Mutant of VoicedClose: the new run keeps the old start time.
VoicedCloseNoRestart ==
    /\ pc = "scan" /\ i < N
    /\ IsVoiced(pitch_hz)
    /\ current_note # None
    /\ PitchChanged \/ ForceCutVoiced
    /\ notes' = IF current_time - current_start_time >= min_note_duration
                   \/ ForceCutVoiced
                THEN Append(notes, Note(current_note, current_start_time,
                                        current_time, 80))
                ELSE notes
    /\ current_note' = midi_note
    /\ i' = i + 1
    /\ UNCHANGED <<cfgVars, f0, current_start_time, pc, ret>>

\* Lines 393-406: pitch change or forced cut closes the run and opens a new one.
VoicedClose ==
    /\ pc = "scan" /\ i < N
    /\ IsVoiced(pitch_hz)
    /\ current_note # None
    /\ PitchChanged \/ ForceCutVoiced
    /\ notes' = IF current_time - current_start_time >= min_note_duration
                   \/ ForceCutVoiced
                THEN Append(notes, Note(current_note, current_start_time,
                                        current_time, 80))
                ELSE notes
    /\ current_note' = midi_note
    /\ current_start_time' = current_time
    /\ i' = i + 1
    /\ UNCHANGED <<cfgVars, f0, pc, ret>>

\* Lines 407-426: an unvoiced frame closes the open run.
UnvoicedClose ==
    /\ pc = "scan" /\ i < N
    /\ ~IsVoiced(pitch_hz)
    /\ current_note # None
    /\ notes' = IF current_time - current_start_time >= min_note_duration
                   \/ ForceCutUnvoiced
                THEN Append(notes, Note(current_note, current_start_time,
                                        current_time, 80))
                ELSE notes
    /\ current_note' = None
    /\ i' = i + 1
    /\ UNCHANGED <<cfgVars, f0, current_start_time, pc, ret>>

\* An unvoiced frame with no open run.
UnvoicedIdle ==
    /\ pc = "scan" /\ i < N
    /\ ~IsVoiced(pitch_hz)
    /\ current_note = None
    /\ i' = i + 1
    /\ UNCHANGED <<cfgVars, f0, current_note, current_start_time, notes, pc, ret>>

\* Mutant of FinalNote: the open run is closed at the last frame's time.
FinalNoteAtLastFrame ==
    /\ pc = "scan" /\ i = N
    /\ LET final_time == (N - 1) * time_per_frame
       IN  notes' = IF current_note # None
                       /\ final_time - current_start_time >= min_note_duration
                    THEN Append(notes, Note(current_note, current_start_time,
                                            final_time, 80))
                    ELSE notes
    /\ pc' = "merge"
    /\ UNCHANGED <<cfgVars, f0, i, current_note, current_start_time, ret>>

\* Lines 428-438: the run still open at the end of the track.
FinalNote ==
    /\ pc = "scan" /\ i = N
    /\ LET final_time == N * time_per_frame
       IN  notes' = IF current_note # None
                       /\ final_time - current_start_time >= min_note_duration
                    THEN Append(notes, Note(current_note, current_start_time,
                                            final_time, 80))
                    ELSE notes
    /\ pc' = "merge"
    /\ UNCHANGED <<cfgVars, f0, i, current_note, current_start_time, ret>>

\* Lines 440-454: merge with gap_thresh = -1.0 s, write the file, return True.
MergeAndWrite ==
    /\ pc = "merge"
    /\ notes' = merge_short_splits(notes, -1000)
    /\ ret' = TRUE
    /\ pc' = "done"
    /\ UNCHANGED <<cfgVars, f0, i, current_note, current_start_time>>

----------------------------------------------------------------------------
(* Inputs of create_midi_from_pitch                                        *)

HzValues == {Hz(0), Hz(220), Hz(440), Hz(466)}

AllTracks == UNION {[1..n -> HzValues] : n \in 0..MaxFrames}

\* The two tracks of the scenarios of the specification.
TrackTwoPitches == Rep(Hz(440), 5) \o Rep(Hz(466), 5)
TrackBridged == Rep(Hz(220), 10) \o Rep(Hz(0), 2) \o Rep(Hz(220), 10)

TrackShortRun == Rep(Hz(440), 2) \o <<Hz(220)>> \o Rep(Hz(440), 2)

Tracks == AllTracks \cup {TrackTwoPitches, TrackBridged, TrackShortRun}

FrameDurations == {20, 25}
MinNoteDurations == {10, 50}

\* rosvot_metadata["phonemes"]: [start, end, label] triples.
PhonemeTiers ==
    { <<>>,
      << <<0, 40, "a">>, <<40, 80, "t">> >>,
      << <<0, 25, "SP">>, <<25, 60, "t">>, <<60, 100, "a">> >> }

ForceSplitSets == {{}, {"t"}}

SegInit ==
    /\ pitch_data \in Tracks
    /\ time_per_frame \in FrameDurations
    /\ min_note_duration \in MinNoteDurations
    /\ max_gap_frames \in 0..MaxGap
    /\ force_split_phonemes \in ForceSplitSets
    /\ phonemes \in PhonemeTiers
    /\ force_split_phonemes = {} => phonemes = <<>>
    /\ f0 = <<>>
    /\ i = 0
    /\ current_note = None
    /\ current_start_time = 0
    /\ notes = <<>>
    /\ pc = "bridge"
    /\ ret = FALSE

Next ==
    \/ BridgeGaps
    \/ VoicedOpen
    \/ VoicedContinue
    \/ VoicedClose
    \/ UnvoicedClose
    \/ UnvoicedIdle
    \/ FinalNote
    \/ MergeAndWrite

\* The merger and the analyzer are not running.
MergeIdle ==
    /\ m_in = <<>> /\ m_gap = 0 /\ m_once = <<>> /\ m_twice = <<>>
    /\ m_pc = "idle"

AnaIdle ==
    /\ ts_file = [words |-> <<>>, phonemes |-> <<>>]
    /\ midi_file = <<>>
    /\ timestamps_data = [loaded |-> FALSE, words |-> <<>>, phonemes |-> <<>>]
    /\ midi_notes = <<>>
    /\ analysis_results = [empty |-> TRUE]
    /\ a_pc = "idle"

SegIdle ==
    /\ pitch_data = <<>> /\ time_per_frame = 20 /\ min_note_duration = 10
    /\ max_gap_frames = 0 /\ force_split_phonemes = {} /\ phonemes = <<>>
    /\ f0 = <<>> /\ i = 0 /\ current_note = None /\ current_start_time = 0
    /\ notes = <<>> /\ pc = "idle" /\ ret = FALSE

\* The repairer and the calibrator are not running.
RepIdle ==
    /\ rep_before = <<>> /\ rep_inserted = <<>> /\ rep_ret = FALSE
    /\ rep_pc = "idle"

CalIdle ==
    /\ cal_frames = 0 /\ cal_wav = [kind |-> "none", dur |-> 0]
    /\ cal_ret = [num |-> 0, den |-> 1] /\ cal_pc = "idle"

\* No pipeline is running: the results dict as run_complete_pipeline makes it.
NoResults ==
    [success |-> FALSE, timestamps |-> FALSE, rosvot_metadata |-> FALSE,
     midi_path |-> FALSE, errors |-> <<>>]

PipeIdle ==
    /\ stage_outcome = <<>> /\ results = NoResults /\ started = <<>>
    /\ p_pc = "idle"

Init == SegInit /\ MergeIdle /\ AnaIdle /\ RepIdle /\ CalIdle /\ PipeIdle

Spec == Init /\ [][Next]_vars

\* Tracks with a frame value that is no frequency: a negative number.  (NaN
\* fails every "> 0" test of the bridger and of the scan, as a negative
\* number does.)
MaxInvalidFrames == 3
InvalidHz == Hz(0 - 220)

InvalidTracks ==
    {t \in UNION {[1..n -> {InvalidHz, Hz(0), Hz(220), Hz(440)}] :
                     n \in 1..MaxInvalidFrames} :
        \E k \in 1..Len(t) : t[k] = InvalidHz}

InvalidInit ==
    /\ pitch_data \in InvalidTracks
    /\ time_per_frame = 20
    /\ min_note_duration \in MinNoteDurations
    /\ max_gap_frames \in 0..MaxGap
    /\ force_split_phonemes = {}
    /\ phonemes = <<>>
    /\ f0 = <<>>
    /\ i = 0
    /\ current_note = None
    /\ current_start_time = 0
    /\ notes = <<>>
    /\ pc = "bridge"
    /\ ret = FALSE

InitInvalid == InvalidInit /\ MergeIdle /\ AnaIdle /\ RepIdle /\ CalIdle /\ PipeIdle

SpecInvalid == InitInvalid /\ [][Next]_vars

----------------------------------------------------------------------------
(* The merger on its own: _merge_short_splits applied once and twice to    *)
(* any NoteSequence (specification SpecMerge)                              *)

MergeTimes == {0, 1, 2, 3}
MergePitches == {60, 62}
MergeGaps == {-1, 0, 1}

MergeNotes ==
    {n \in [pitch : MergePitches, start : MergeTimes, end : MergeTimes,
            velocity : {80}] : n.start < n.end}

MergeInputs == UNION {[1..n -> MergeNotes] : n \in 0..MaxMergeNotes}

MergeInit ==
    /\ m_in \in MergeInputs
    /\ m_gap \in MergeGaps
    /\ m_once = <<>>
    /\ m_twice = <<>>
    /\ m_pc = "in"

\* merged = self._merge_short_splits(S, gap)
MergeFirst ==
    /\ m_pc = "in"
    /\ m_once' = merge_short_splits(m_in, m_gap)
    /\ m_pc' = "once"
    /\ UNCHANGED <<m_in, m_gap, m_twice, segVars, anaVars, repVars, calVars, pipeVars>>

\* self._merge_short_splits(merged, gap)
MergeSecond ==
    /\ m_pc = "once"
    /\ m_twice' = merge_short_splits(m_once, m_gap)
    /\ m_pc' = "twice"
    /\ UNCHANGED <<m_in, m_gap, m_once, segVars, anaVars, repVars, calVars, pipeVars>>

InitMerge == SegIdle /\ MergeInit /\ AnaIdle /\ RepIdle /\ CalIdle /\ PipeIdle

NextMerge ==
    \/ MergeFirst
    \/ MergeSecond

SpecMerge == InitMerge /\ [][NextMerge]_vars

----------------------------------------------------------------------------
(* MIDIAnalyzer                                                            *)

\* A float ratio, kept exact as numerator over denominator (den > 0).
Frac(n, d) == [num |-> n, den |-> d]
FracLess(a, b) == a.num * b.den < b.num * a.den
FracAdd(a, b) == Frac(a.num * b.den + b.num * a.den, a.den * b.den)

RECURSIVE FracSum(_)
FracSum(rs) == IF Len(rs) = 0 THEN Frac(0, 1)
               ELSE FracAdd(Head(rs), FracSum(Tail(rs)))

\* np.mean(ratios) if ratios else 0
FracMean(rs) ==
    IF Len(rs) = 0 THEN Frac(0, 1)
    ELSE LET t == FracSum(rs) IN Frac(t.num, t.den * Len(rs))

\* pretty_midi.note_number_to_name: pitch class and octave.
note_number_to_name(p) == <<p % 12, (p \div 12) - 1>>

\* load_midi, lines 44-53: one dict per note of the first instrument.
MidiNoteDicts(ns) ==
    [k \in 1..Len(ns) |->
        [start |-> ns[k].start, end |-> ns[k].end, pitch |-> ns[k].pitch,
         note_name |-> note_number_to_name(ns[k].pitch),
         velocity |-> ns[k].velocity]]

\* _find_overlapping_notes over a list of note dicts.
RECURSIVE OverlappingIn(_, _, _)
OverlappingIn(ns, start, end) ==
    IF Len(ns) = 0 THEN <<>>
    ELSE LET note == Head(ns)
             rest == OverlappingIn(Tail(ns), start, end)
         IN  IF note.start < end /\ note.end > start
             THEN << [overlap_duration |->
                         Min(note.end, end) - Max(note.start, start),
                      note_name |-> note.note_name,
                      pitch |-> note.pitch] >> \o rest
             ELSE rest

find_overlapping_notes(start, end) == OverlappingIn(midi_notes, start, end)

\* Mutant of calculate_coverage_ratio: the min(..., 1.0) clamp is missing.
calculate_coverage_ratio_unclamped(start, end, overlapping_notes) ==
    IF Len(overlapping_notes) = 0 THEN Frac(0, 1)
    ELSE Frac(SumSeq([k \in 1..Len(overlapping_notes) |->
                          overlapping_notes[k].overlap_duration]),
              end - start)

\* _calculate_coverage_ratio
calculate_coverage_ratio(start, end, overlapping_notes) ==
    IF Len(overlapping_notes) = 0 THEN Frac(0, 1)
    ELSE LET total_duration == end - start
             covered_duration ==
                 SumSeq([k \in 1..Len(overlapping_notes) |->
                            overlapping_notes[k].overlap_duration])
         IN  IF covered_duration >= total_duration
             THEN Frac(1, 1)
             ELSE Frac(covered_duration, total_duration)

\* Lines 88-97 and 107-116: the coverage_info dict of one interval.
CoverageInfo(idx, iv) ==
    LET overlapping_notes == find_overlapping_notes(iv[1], iv[2])
    IN  [index |-> idx, label |-> iv[3], start |-> iv[1], end |-> iv[2],
         duration |-> iv[2] - iv[1],
         has_midi |-> Len(overlapping_notes) > 0,
         coverage_ratio |->
             calculate_coverage_ratio(iv[1], iv[2], overlapping_notes),
         midi_notes |-> [k \in 1..Len(overlapping_notes) |->
                            [note_name |-> overlapping_notes[k].note_name,
                             pitch |-> overlapping_notes[k].pitch]]]

\* The loops over enumerate(words) and enumerate(phonemes): 'SP' is skipped,
\* the index counts every interval.
RECURSIVE CoverageFrom(_, _)
CoverageFrom(ivs, idx) ==
    IF idx >= Len(ivs) THEN <<>>
    ELSE IF ivs[idx + 1][3] = "SP" THEN CoverageFrom(ivs, idx + 1)
         ELSE <<CoverageInfo(idx, ivs[idx + 1])>> \o CoverageFrom(ivs, idx + 1)

\* _find_missing_segments: the phonemes other than 'SP' covered below 10%.
RECURSIVE MissingIn(_)
MissingIn(ivs) ==
    IF Len(ivs) = 0 THEN <<>>
    ELSE LET iv == Head(ivs)
             overlapping_notes == find_overlapping_notes(iv[1], iv[2])
             coverage_ratio ==
                 calculate_coverage_ratio(iv[1], iv[2], overlapping_notes)
         IN  IF iv[3] # "SP" /\ FracLess(coverage_ratio, Frac(1, 10))
             THEN << [start |-> iv[1], end |-> iv[2],
                      duration |-> iv[2] - iv[1], phoneme |-> iv[3],
                      coverage_ratio |-> coverage_ratio,
                      reason |-> IF coverage_ratio.num > 0
                                 THEN "low_coverage" ELSE "no_midi"] >>
                  \o MissingIn(Tail(ivs))
             ELSE MissingIn(Tail(ivs))

find_missing_segments == MissingIn(timestamps_data.phonemes)

\* _calculate_statistics
calculate_statistics(word_coverage, phoneme_coverage, missing_segments) ==
    LET with_midi(cs) == Cardinality({k \in 1..Len(cs) : cs[k].has_midi})
        ratios(cs) == [k \in 1..Len(cs) |-> cs[k].coverage_ratio]
        rate(cs) == IF Len(cs) = 0 THEN Frac(0, 1)
                    ELSE Frac(with_midi(cs), Len(cs))
    IN  [word_success_rate |-> rate(word_coverage),
         phoneme_success_rate |-> rate(phoneme_coverage),
         words_with_midi |-> with_midi(word_coverage),
         phonemes_with_midi |-> with_midi(phoneme_coverage),
         avg_word_coverage |-> FracMean(ratios(word_coverage)),
         avg_phoneme_coverage |-> FracMean(ratios(phoneme_coverage)),
         missing_segments_count |-> Len(missing_segments),
         total_missing_duration |->
             SumSeq([k \in 1..Len(missing_segments) |->
                        missing_segments[k].duration])]

\* The dict analyze_coverage returns; "empty" marks the empty dict {}.
EmptyDict == [empty |-> TRUE]

\* load_timestamps
LoadTimestamps ==
    /\ a_pc = "load_timestamps"
    /\ timestamps_data' = [loaded |-> TRUE, words |-> ts_file.words,
                           phonemes |-> ts_file.phonemes]
    /\ a_pc' = "load_midi"
    /\ UNCHANGED <<ts_file, midi_file, midi_notes, analysis_results,
                   segVars, mergeVars, repVars, calVars, pipeVars>>

\* load_midi
LoadMidi ==
    /\ a_pc = "load_midi"
    /\ midi_notes' = MidiNoteDicts(midi_file)
    /\ a_pc' = "analyze"
    /\ UNCHANGED <<ts_file, midi_file, timestamps_data, analysis_results,
                   segVars, mergeVars, repVars, calVars, pipeVars>>

\* analyze_coverage
AnalyzeCoverage ==
    /\ a_pc = "analyze"
    /\ IF ~timestamps_data.loaded \/ Len(midi_notes) = 0
       THEN analysis_results' = analysis_results
       ELSE LET word_coverage == CoverageFrom(timestamps_data.words, 0)
                phoneme_coverage == CoverageFrom(timestamps_data.phonemes, 0)
                missing_segments == find_missing_segments
            IN  analysis_results' =
                  [empty |-> FALSE,
                   total_words |-> Len(timestamps_data.words),
                   total_phonemes |-> Len(timestamps_data.phonemes),
                   total_midi_notes |-> Len(midi_notes),
                   word_coverage |-> word_coverage,
                   phoneme_coverage |-> phoneme_coverage,
                   missing_segments |-> missing_segments,
                   statistics |->
                       calculate_statistics(word_coverage, phoneme_coverage,
                                            missing_segments)]
    /\ a_pc' = "done"
    /\ UNCHANGED <<ts_file, midi_file, timestamps_data, midi_notes,
                   segVars, mergeVars, repVars, calVars, pipeVars>>

\* Inputs of the analyzer.
AnaTimes == {0, 1, 10, 12}
AnaLabels == {"a", "SP", "AP", ""}
AnaSpans == {x \in AnaTimes \X AnaTimes : x[1] < x[2]}

AnaNotes == {Note(60, x[1], x[2], 80) : x \in AnaSpans}
AnaNoteSeqs == UNION {[1..n -> AnaNotes] : n \in 0..MaxAnaNotes}

AnaIntervals == {<<x[1], x[2], l>> : x \in AnaSpans, l \in AnaLabels}

\* Lexical intervals are time-ordered and do not overlap.
AnaPhonemeTiers ==
    {t \in UNION {[1..n -> AnaIntervals] : n \in 0..MaxAnaPhonemes} :
        \A k \in 1..(Len(t) - 1) : t[k][2] <= t[k + 1][1]}

AnaWordTiers ==
    { <<>>,
      << <<0, 12, "la">> >>,
      << <<0, 10, "SP">>, <<10, 12, "la">> >> }

AnaInit ==
    /\ ts_file \in [words : AnaWordTiers, phonemes : AnaPhonemeTiers]
    /\ midi_file \in AnaNoteSeqs
    /\ timestamps_data = [loaded |-> FALSE, words |-> <<>>, phonemes |-> <<>>]
    /\ midi_notes = <<>>
    /\ analysis_results = EmptyDict
    /\ a_pc = "load_timestamps"

InitCoverage == SegIdle /\ MergeIdle /\ AnaInit /\ RepIdle /\ CalIdle /\ PipeIdle

NextCoverage ==
    \/ LoadTimestamps
    \/ LoadMidi
    \/ AnalyzeCoverage

SpecCoverage == InitCoverage /\ [][NextCoverage]_vars

----------------------------------------------------------------------------
(* repair_micro_gaps_with_phonemes: the second pass, which fills uncovered *)
(* phoneme intervals of the MIDI file with a neighbour's pitch.            *)

\* The keyword defaults, which the one caller (_main_impl) leaves alone, ms.
min_phoneme_dur == 25
max_fill_dur == 250
min_overlap_for_covered == 10
max_neighbor_gap == 140
insert_velocity == 64
\* The gap of the merge at the end of the pass (0.02 s).
repair_merge_gap == 20

\* phones: labels "SP", "AP" and "" dropped, then intervals shorter than
\* min_phoneme_dur dropped.
UsablePhones(ps) ==
    LET labelled == SelectSeq(ps, LAMBDA x : x[3] \notin {"SP", "AP", ""})
    IN  SelectSeq(labelled, LAMBDA x : x[2] - x[1] >= min_phoneme_dur)

\* Where a note goes in a list sorted by (start, end); equal keys keep their
\* order, as list.sort is stable.
InsertSorted(ns, n) ==
    LET after == {k \in 1..Len(ns) :
                     \/ ns[k].start > n.start
                     \/ ns[k].start = n.start /\ ns[k].end > n.end}
        pos == IF after = {} THEN Len(ns) + 1
               ELSE CHOOSE k \in after : \A q \in after : k <= q
    IN  SubSeq(ns, 1, pos - 1) \o <<n>> \o SubSeq(ns, pos, Len(ns))

RECURSIVE SortNotes(_)
SortNotes(ns) ==
    IF ns = <<>> THEN <<>>
    ELSE InsertSorted(SortNotes(SubSeq(ns, 1, Len(ns) - 1)), ns[Len(ns)])

overlap(a0, a1, b0, b1) == Max(0, Min(a1, b1) - Max(a0, b0))

\* The coverage loop: stops at the first note starting at or after e, skips
\* the notes ending at or before s, adds up the overlaps of the others.
RECURSIVE CoverageLoop(_, _, _)
CoverageLoop(ns, s, e) ==
    IF ns = <<>> THEN 0
    ELSE IF Head(ns).start >= e THEN 0
    ELSE IF Head(ns).end <= s THEN CoverageLoop(Tail(ns), s, e)
    ELSE overlap(s, e, Head(ns).start, Head(ns).end)
            + CoverageLoop(Tail(ns), s, e)

\* find_prev_next at t = t2 / 2 (the midpoint (s + e) * 0.5, doubled to stay
\* in the integers).  A missing neighbour is the empty sequence.
RECURSIVE FindPrevNextLoop(_, _, _)
FindPrevNextLoop(ns, t2, prev) ==
    IF ns = <<>> THEN [prev |-> prev, nxt |-> <<>>]
    ELSE IF 2 * Head(ns).end <= t2
         THEN FindPrevNextLoop(Tail(ns), t2, <<Head(ns)>>)
    ELSE IF 2 * Head(ns).start >= t2
         THEN [prev |-> prev, nxt |-> <<Head(ns)>>]
    ELSE FindPrevNextLoop(Tail(ns), t2, prev)

find_prev_next(ns, t2) == FindPrevNextLoop(ns, t2, <<>>)

\* The candidate donors <<src, gap, pitch>>, prev first.
Candidates(pn, s, e) ==
    (IF pn.prev # <<>>
     THEN << <<"prev", Max(0, s - pn.prev[1].end), pn.prev[1].pitch>> >>
     ELSE <<>>)
    \o
    (IF pn.nxt # <<>>
     THEN << <<"next", Max(0, pn.nxt[1].start - e), pn.nxt[1].pitch>> >>
     ELSE <<>>)

\* Mutant of ChooseDonor: the preceding note whenever there is one.
ChooseDonorFirst(cands) == cands[1]

\* Mutant of ChooseDonor: the last candidate, whatever the gaps.
ChooseDonorLast(cands) == cands[Len(cands)]

\* min(candidates, key=gap): the first candidate of least gap.
ChooseDonor(cands) ==
    cands[CHOOSE k \in 1..Len(cands) :
             /\ \A q \in 1..Len(cands) : cands[k][2] <= cands[q][2]
             /\ \A q \in 1..(k - 1) : cands[q][2] > cands[k][2]]

\* Mutant of InsertedNote: the velocity of the primary pass.
InsertedNoteLoud(pitch, start_t, end_t) == Note(pitch, start_t, end_t, 80)

\* Lines 189-195: the note appended to the instrument.
InsertedNote(pitch, start_t, end_t) ==
    Note(pitch, start_t, end_t, insert_velocity)

\* Mutant of FillFor: the note is not clipped to its neighbours.
FillForUnclipped(ns, ph) ==
    LET s == ph[1]
        e == ph[2]
        pn == find_prev_next(ns, s + e)
        cands == Candidates(pn, s, e)
        donor == ChooseDonor(cands)
    IN  IF e - s > max_fill_dur THEN <<>>
        ELSE IF CoverageLoop(ns, s, e) >= min_overlap_for_covered THEN <<>>
        ELSE IF cands = <<>> THEN <<>>
        ELSE IF donor[2] > max_neighbor_gap THEN <<>>
        ELSE << InsertedNote(donor[3], s, e) >>

\* One turn of the loop over the phones: the note appended for the phoneme
\* (s, e, p), or nothing.  ns is the sorted copy of the file's notes taken
\* before the loop; the notes the loop appends are not part of it.
FillFor(ns, ph) ==
    LET s == ph[1]
        e == ph[2]
        pn == find_prev_next(ns, s + e)
        cands == Candidates(pn, s, e)
        donor == ChooseDonor(cands)
        start_t == IF pn.prev # <<>> THEN Max(s, pn.prev[1].end) ELSE s
        end_t == IF pn.nxt # <<>> THEN Min(e, pn.nxt[1].start) ELSE e
    IN  IF e - s > max_fill_dur THEN <<>>
        ELSE IF CoverageLoop(ns, s, e) >= min_overlap_for_covered THEN <<>>
        ELSE IF cands = <<>> THEN <<>>
        ELSE IF donor[2] > max_neighbor_gap THEN <<>>
        ELSE IF end_t - start_t < min_phoneme_dur THEN <<>>
        ELSE << InsertedNote(donor[3], start_t, end_t) >>

RECURSIVE FillLoop(_, _)
FillLoop(ns, phones) ==
    IF phones = <<>> THEN <<>>
    ELSE FillFor(ns, Head(phones)) \o FillLoop(ns, Tail(phones))

\* The notes the pass appends to the first instrument, in order; none when
\* no phoneme is usable or the file has no instrument.
InsertedNotes(file, ps) ==
    IF UsablePhones(ps) = <<>> \/ file = <<>> THEN <<>>
    ELSE FillLoop(SortNotes(file), UsablePhones(ps))

\* Mutant of RepairMergeLoop: the absorbed note is dropped, the merged note
\* keeps its end.
RECURSIVE RepairMergeLoopNoExtend(_, _)
RepairMergeLoopNoExtend(merged, rest) ==
    IF rest = <<>> THEN merged
    ELSE LET m == merged[Len(merged)]
             n == Head(rest)
         IN  IF n.pitch = m.pitch /\ n.start - m.end <= repair_merge_gap
             THEN RepairMergeLoopNoExtend(merged, Tail(rest))
             ELSE RepairMergeLoopNoExtend(Append(merged, n), Tail(rest))

\* Mutant of RepairMergeLoop: the pitches are not compared.
RECURSIVE RepairMergeLoopAnyPitch(_, _)
RepairMergeLoopAnyPitch(merged, rest) ==
    IF rest = <<>> THEN merged
    ELSE LET m == merged[Len(merged)]
             n == Head(rest)
         IN  IF n.start - m.end <= repair_merge_gap
             THEN RepairMergeLoopAnyPitch(
                      [merged EXCEPT ![Len(merged)].end = Max(m.end, n.end)],
                      Tail(rest))
             ELSE RepairMergeLoopAnyPitch(Append(merged, n), Tail(rest))

\* The merge at the end of the pass: a note of the pitch of the last merged
\* note starting at most 0.02 s after its end is absorbed, the merged note
\* ending at the later of the two ends.
RECURSIVE RepairMergeLoop(_, _)
RepairMergeLoop(merged, rest) ==
    IF rest = <<>> THEN merged
    ELSE LET m == merged[Len(merged)]
             n == Head(rest)
         IN  IF n.pitch = m.pitch /\ n.start - m.end <= repair_merge_gap
             THEN RepairMergeLoop(
                      [merged EXCEPT ![Len(merged)].end = Max(m.end, n.end)],
                      Tail(rest))
             ELSE RepairMergeLoop(Append(merged, n), Tail(rest))

\* Sort by (start, end), merge.
SortAndMerge(ns) ==
    LET sorted == SortNotes(ns)
    IN  RepairMergeLoop(<<Head(sorted)>>, Tail(sorted))

\* Mutant of RepairOutcome: sort, merge and write without "if inserted > 0".
RepairOutcomeAlways(file, inserted) ==
    IF file \o inserted = <<>> THEN [file |-> file, ret |-> FALSE]
    ELSE [file |-> SortAndMerge(file \o inserted), ret |-> inserted # <<>>]

\* The end of the pass: with an insertion the notes are sorted, merged and
\* written, and the pass returns True; without one nothing is written and the
\* pass returns False.
RepairOutcome(file, inserted) ==
    IF Len(inserted) > 0
    THEN [file |-> SortAndMerge(file \o inserted), ret |-> TRUE]
    ELSE [file |-> file, ret |-> FALSE]

\* repair_micro_gaps_with_phonemes(midi_path, timestamps_path); the analysis
\* of the __main__ block follows it.
RepairMicroGaps ==
    /\ rep_pc = "repair"
    /\ LET inserted == InsertedNotes(midi_file, ts_file.phonemes)
           outcome == RepairOutcome(midi_file, inserted)
       IN  /\ rep_inserted' = inserted
           /\ midi_file' = outcome.file
           /\ rep_ret' = outcome.ret
    /\ rep_pc' = "done"
    /\ a_pc' = "load_timestamps"
    /\ UNCHANGED <<rep_before, ts_file, timestamps_data, midi_notes,
                   analysis_results, segVars, mergeVars, calVars, pipeVars>>

\* Inputs of the repairer: times in ms around the thresholds.
MaxRepNotes == 2
MaxRepPhonemes == 2
RepTimes == {0, 5, 100, 105, 200, 400}
RepPitches == {60, 62}
RepLabels == {"a", "SP"}
RepSpans == {x \in RepTimes \X RepTimes : x[1] < x[2]}

\* The notes of a file: time-ordered, not overlapping.
RepNoteSeqs ==
    {ns \in UNION {[1..n -> {Note(p, x[1], x[2], 80) :
                                p \in RepPitches, x \in RepSpans}] :
                      n \in 0..MaxRepNotes} :
        \A k \in 1..(Len(ns) - 1) : ns[k].end <= ns[k + 1].start}

RepPhonemeTiers ==
    {t \in UNION {[1..n -> {<<x[1], x[2], l>> :
                               x \in RepSpans, l \in RepLabels}] :
                     n \in 0..MaxRepPhonemes} :
        \A k \in 1..(Len(t) - 1) : t[k][2] <= t[k + 1][1]}

\* A phoneme "ta" over [5.0, 5.2) between a note of pitch 62 ending at 4.98
\* and a note starting at 5.25.
ScenarioNotes == << Note(62, 4900, 4980, 80), Note(64, 5250, 5300, 80) >>
ScenarioPhonemes == << <<5000, 5200, "ta">> >>

\* The same with a following note of the pitch of the preceding one.
ScenarioSamePitch == << Note(62, 4900, 4980, 80), Note(62, 5250, 5300, 80) >>

\* A phoneme of 30 ms that overlaps the note before it by 5 ms; the note
\* after it leaves 23 ms or 25 ms of the interval free.
ClipNoteSeqs ==
    {<< Note(60, 0, 105, 80), Note(62, t, 200, 80) >> : t \in {128, 130}}
ClipPhonemes == << <<100, 130, "a">> >>

RepInit ==
    /\ \/ /\ midi_file \in RepNoteSeqs
          /\ ts_file \in [words : {<<>>}, phonemes : RepPhonemeTiers]
       \/ /\ midi_file \in ClipNoteSeqs
          /\ ts_file = [words |-> <<>>, phonemes |-> ClipPhonemes]
       \/ /\ midi_file \in {ScenarioNotes, ScenarioSamePitch}
          /\ ts_file = [words |-> <<>>, phonemes |-> ScenarioPhonemes]
    /\ rep_before = midi_file
    /\ rep_inserted = <<>>
    /\ rep_ret = FALSE
    /\ rep_pc = "repair"
    /\ timestamps_data = [loaded |-> FALSE, words |-> <<>>, phonemes |-> <<>>]
    /\ midi_notes = <<>>
    /\ analysis_results = EmptyDict
    /\ a_pc = "idle"

InitRepair ==
    SegIdle /\ MergeIdle /\ RepInit /\ CalIdle /\ PipeIdle

NextRepair ==
    \/ RepairMicroGaps
    \/ LoadTimestamps
    \/ LoadMidi
    \/ AnalyzeCoverage

SpecRepair == InitRepair /\ [][NextRepair]_vars

----------------------------------------------------------------------------
(* MIDIConverter._infer_time_per_frame: seconds per frame from the length  *)
(* of the audio file.  Durations are in ms, the result is a fraction of a  *)
(* second.                                                                 *)

\* MIDIConverter(sample_rate=22050, hop_length=512)
sample_rate == 22050
hop_length == 512
default_tpf == Frac(hop_length, sample_rate)

\* "0.015 <= tpf_est <= 0.030" for tpf_est = dur / n, dur in ms.
\* Mutant of Plausible: no range test.
PlausibleAlways(dur, n) == TRUE
Plausible(dur, n) == 15 * n <= dur /\ dur <= 30 * n

\* wav.kind is "none" without rosvot_metadata or "wav_fn", "fail" when
\* librosa raises, "ok" when librosa.get_duration returns wav.dur.
infer_time_per_frame(frames, wav, dflt) ==
    IF wav.kind = "ok"
    THEN LET n == Max(1, frames)
         IN  IF Plausible(wav.dur, n) THEN Frac(wav.dur, 1000 * n) ELSE dflt
    ELSE dflt

InferTimePerFrame ==
    /\ cal_pc = "call"
    /\ cal_ret' = infer_time_per_frame(cal_frames, cal_wav, default_tpf)
    /\ cal_pc' = "done"
    /\ UNCHANGED <<cal_frames, cal_wav, segVars, mergeVars, anaVars, repVars,
                   pipeVars>>

\* Inputs of the calibrator.
MaxCalFrames == 4
CalDurations == {0, 14, 15, 20, 30, 31, 40, 59, 60, 61, 90, 91, 120, 121}

CalInit ==
    /\ cal_frames \in 0..MaxCalFrames
    /\ cal_wav \in [kind : {"ok"}, dur : CalDurations]
                     \cup [kind : {"none", "fail"}, dur : {0}]
    /\ cal_ret = Frac(0, 1)
    /\ cal_pc = "call"

InitCalib ==
    SegIdle /\ MergeIdle /\ AnaIdle /\ RepIdle /\ CalInit /\ PipeIdle

NextCalib ==
    \/ InferTimePerFrame

SpecCalib == InitCalib /\ [][NextCalib]_vars

----------------------------------------------------------------------------
(* FullPipeline.run_complete_pipeline: the four stages of one item.  A     *)
(* stage returns a value ("ok"), returns an empty or false value           *)
(* ("falsy"), or raises ("raise"); the console output is left out.         *)

Outcomes == {"ok", "falsy", "raise"}

\* return results, after one more entry in results['errors'].
ReturnError(msg) ==
    /\ results' = [results EXCEPT !.errors = Append(@, msg)]
    /\ p_pc' = "returned"

\* A stage that raises: the except clause of lines 141-145.
RaiseOrElse(outcome, otherwise) ==
    IF outcome = "raise" THEN ReturnError("exception") ELSE otherwise

\* Mutant of StageFails: a falsy result is not a failure.
StageFailsNever(outcome) == FALSE

\* "if not timestamps", "if not rosvot_metadata", "if not validate_...",
\* "if not midi_path".
StageFails(outcome) == outcome = "falsy"

\* Lines 62-75: create_timestamps, then the copy of the TextGrid file.
CreateTimestamps ==
    /\ p_pc = "timestamps"
    /\ started' = Append(started, "timestamps")
    /\ RaiseOrElse(stage_outcome.timestamps,
          IF StageFails(stage_outcome.timestamps)
          THEN ReturnError("timestamps")
          ELSE IF stage_outcome.textgrid = "raise"
               THEN /\ results' = [results EXCEPT !.timestamps = TRUE,
                                       !.errors = Append(@, "exception")]
                    /\ p_pc' = "returned"
               ELSE /\ results' = [results EXCEPT !.timestamps = TRUE]
                    /\ p_pc' = "convert")
    /\ UNCHANGED <<stage_outcome, segVars, mergeVars, anaVars, repVars,
                   calVars>>

\* Lines 88-92: convert_to_rosvot_format.
ConvertToRosvot ==
    /\ p_pc = "convert"
    /\ started' = Append(started, "convert")
    /\ RaiseOrElse(stage_outcome.convert,
          IF StageFails(stage_outcome.convert)
          THEN ReturnError("convert")
          ELSE /\ p_pc' = "validate"
               /\ results' = results)
    /\ UNCHANGED <<stage_outcome, segVars, mergeVars, anaVars, repVars,
                   calVars>>

\* Lines 94-99: validate_rosvot_metadata.
ValidateMetadata ==
    /\ p_pc = "validate"
    /\ started' = Append(started, "validate")
    /\ RaiseOrElse(stage_outcome.validate,
          IF StageFails(stage_outcome.validate)
          THEN ReturnError("validate")
          ELSE /\ results' = [results EXCEPT !.rosvot_metadata = TRUE]
               /\ p_pc' = "midi")
    /\ UNCHANGED <<stage_outcome, segVars, mergeVars, anaVars, repVars,
                   calVars>>

\* Lines 109-139: rosvot_to_midi, success, return.
RosvotToMidi ==
    /\ p_pc = "midi"
    /\ started' = Append(started, "midi")
    /\ RaiseOrElse(stage_outcome.midi,
          IF StageFails(stage_outcome.midi)
          THEN ReturnError("midi")
          ELSE /\ results' = [results EXCEPT !.midi_path = TRUE,
                                             !.success = TRUE]
               /\ p_pc' = "returned")
    /\ UNCHANGED <<stage_outcome, segVars, mergeVars, anaVars, repVars,
                   calVars>>

PipeInit ==
    /\ stage_outcome \in [timestamps : Outcomes,
                          textgrid : {"none", "copied", "raise"},
                          convert : Outcomes,
                          validate : Outcomes,
                          midi : Outcomes]
    /\ results = NoResults
    /\ started = <<>>
    /\ p_pc = "timestamps"

InitPipeline ==
    SegIdle /\ MergeIdle /\ AnaIdle /\ RepIdle /\ CalIdle /\ PipeInit

NextPipeline ==
    \/ CreateTimestamps
    \/ ConvertToRosvot
    \/ ValidateMetadata
    \/ RosvotToMidi

SpecPipeline == InitPipeline /\ [][NextPipeline]_vars

----------------------------------------------------------------------------
(* Properties of the segmenter and the bridger (specification Spec)        *)

Span(n) == <<n.pitch, n.start, n.end>>
Spans(ns) == [k \in 1..Len(ns) |-> Span(ns[k])]
TotalDuration == Len(pitch_data) * time_per_frame

\* C1: at every point of create_midi_from_pitch, under every configuration
\* (forced cuts included), every note has start < end and each note ends no
\* later than the next one starts.
C1_TimeOrdered ==
    \A k \in 1..Len(notes) :
        /\ notes[k].start < notes[k].end
        /\ k < Len(notes) => notes[k].end <= notes[k + 1].start

C1_Witness ==
    /\ pc = "done"
    /\ force_split_phonemes # {}
    /\ Len(notes) >= 3

\* round(69 + 12*log2(hz/440)) for the pitches 45..81: RoundHz[p - 44] is the
\* least half-Hz value whose nearest semitone is p, ceil(880 * 2^((p-69.5)/12)).
RoundHz ==
    << 214, 227, 240, 255, 270, 286, 303, 321, 340, 360, 381, 404,
       428, 453, 480, 509, 539, 571, 605, 641, 679, 719, 762, 807,
       855, 906, 960, 1017, 1078, 1142, 1210, 1281, 1358, 1438, 1524,
       1614, 1710 >>

NearestPitch(hz) ==
    LET below == {k \in DOMAIN RoundHz : RoundHz[k] <= hz}
    IN  44 + (CHOOSE k \in below : \A q \in below : q <= k)

DefaultConfig ==
    /\ min_note_duration = 10
    /\ max_gap_frames = 0
    /\ force_split_phonemes = {}

\* C2: every voiced frame the scan converts gets the nearest semitone, and the
\* track [440Hz]x5, [466Hz]x5 at 20 ms per frame yields pitch 69 over [0,100)
\* and pitch 70 over [100,200).
C2_NearestSemitone ==
    /\ (pc = "scan" /\ i < N /\ IsVoiced(pitch_hz))
          => midi_note = NearestPitch(pitch_hz)
    /\ (pc = "done" /\ pitch_data = TrackTwoPitches /\ time_per_frame = 20
          /\ DefaultConfig)
          => Spans(notes) = << <<69, 0, 100>>, <<70, 100, 200>> >>

ConstantPitchTrack ==
    /\ Len(pitch_data) >= 1
    /\ \A k \in 1..Len(pitch_data) :
          /\ pitch_data[k] > 0
          /\ hz_to_midi_note(pitch_data[k]) = hz_to_midi_note(pitch_data[1])

\* C3 as stated: a fully voiced track whose frames all quantize to one pitch p,
\* of total duration T >= min_note_duration, yields exactly the note p over [0,T).
C3_OneNoteAnyConfig ==
    (pc = "done" /\ ConstantPitchTrack /\ TotalDuration >= min_note_duration)
        => Spans(notes)
             = << <<hz_to_midi_note(pitch_data[1]), 0, TotalDuration>> >>

\* C3 amended: the same, when forced cuts are disabled (no forced-cut labels).
C3_OneNote ==
    (pc = "done" /\ ConstantPitchTrack /\ TotalDuration >= min_note_duration
       /\ force_split_phonemes = {})
        => Spans(notes)
             = << <<hz_to_midi_note(pitch_data[1]), 0, TotalDuration>> >>

C3_Witness ==
    /\ pc = "done" /\ ConstantPitchTrack
    /\ Len(pitch_data) = MaxFrames
    /\ TotalDuration >= min_note_duration
    /\ force_split_phonemes = {}
    /\ Len(notes) = 1

AllUnvoiced == \A k \in 1..Len(pitch_data) : pitch_data[k] = 0

\* C4: for an empty or all-zero track the conversion never stops before its
\* end, returns True and leaves the NoteSequence empty.
C4_EmptyOutput ==
    AllUnvoiced =>
        /\ notes = <<>>
        /\ pc # "done" => ENABLED Next
        /\ pc = "done" => ret = TRUE

C4_Witness ==
    /\ pc = "done" /\ AllUnvoiced
    /\ Len(pitch_data) = MaxFrames
    /\ ret = TRUE

\* A voiced run, an unvoiced gap of 1..max_gap_frames frames, a voiced run at
\* the same frequency.
BridgedShape(hz) ==
    \E a \in 1..Len(pitch_data), g \in 1..max_gap_frames :
        /\ a + g < Len(pitch_data)
        /\ pitch_data = Rep(hz, a) \o Rep(0, g)
                          \o Rep(hz, Len(pitch_data) - a - g)

\* C5 as stated: such a track yields exactly one note over the whole track, and
\* [220Hz]x10, [0]x2, [220Hz]x10 at 20 ms per frame with max_gap_frames = 2
\* yields pitch 57 over [0,440).
C5_BridgedAnyConfig ==
    /\ \A hz \in HzValues \ {0} :
          (pc = "done" /\ BridgedShape(hz))
             => Spans(notes) = << <<hz_to_midi_note(hz), 0, TotalDuration>> >>
    /\ (pc = "done" /\ pitch_data = TrackBridged /\ time_per_frame = 20
          /\ max_gap_frames = 2)
          => Spans(notes) = << <<57, 0, 440>> >>

\* C5 amended: the same, when forced cuts are disabled and the track lasts at
\* least min_note_duration.
C5_Bridged ==
    (force_split_phonemes = {} /\ TotalDuration >= min_note_duration) =>
        /\ \A hz \in HzValues \ {0} :
              (pc = "done" /\ BridgedShape(hz))
                 => Spans(notes)
                      = << <<hz_to_midi_note(hz), 0, TotalDuration>> >>
        /\ (pc = "done" /\ pitch_data = TrackBridged /\ time_per_frame = 20
              /\ max_gap_frames = 2)
              => Spans(notes) = << <<57, 0, 440>> >>

C5_Witness ==
    /\ pc = "done" /\ pitch_data = TrackBridged
    /\ time_per_frame = 20 /\ max_gap_frames = 2
    /\ force_split_phonemes = {}
    /\ Spans(notes) = << <<57, 0, 440>> >>

BridgerKeepsVoiced ==
    pc \notin {"bridge", "idle"} =>
        /\ Len(f0) = Len(pitch_data)
        /\ \A k \in 1..Len(pitch_data) : pitch_data[k] > 0 => f0[k] = pitch_data[k]
        /\ max_gap_frames = 0 => f0 = pitch_data

\* C6: the bridged track has the length of the input, every voiced frame of
\* the input keeps its value, with max_gap_frames = 0 it equals the input, and
\* the caller's array is never written.
C6_VoicedKept == []BridgerKeepsVoiced /\ [][pitch_data' = pitch_data]_vars

C6_Witness ==
    /\ pc = "scan"
    /\ f0 # pitch_data
    /\ \E k \in 1..Len(pitch_data) : pitch_data[k] > 0

\* C15: a track with a negative frame value is rejected: the conversion
\* does not succeed and no note is produced.  (Specification SpecInvalid.)
C15_InvalidRejected ==
    (pc = "done" /\ \E k \in 1..Len(pitch_data) : pitch_data[k] < 0)
        => (ret = FALSE /\ notes = <<>>)

\* The run open at the current frame, as a note closed at the current time.
ClosedRun == Note(current_note, current_start_time, current_time, 80)
RunLongEnough == current_time - current_start_time >= min_note_duration

\* C18: at a voiced frame with an open run, a forced cut emits the run
\* whatever its duration, a pitch change without forced cut emits it only if
\* it lasts at least min_note_duration, and either way a new run opens at
\* (pitch, current time); and every note emitted by any step other than a
\* forced cut at a voiced frame lasts at least min_note_duration.
C18_DurationGate ==
    [][ /\ (pc = "scan" /\ i < N /\ IsVoiced(pitch_hz) /\ current_note # None
              /\ (PitchChanged \/ ForceCutVoiced))
           => /\ notes' = IF RunLongEnough \/ ForceCutVoiced
                          THEN Append(notes, ClosedRun) ELSE notes
              /\ current_note' = midi_note
              /\ current_start_time' = current_time
        /\ Len(notes') > Len(notes)
           => \/ notes'[Len(notes')].end - notes'[Len(notes')].start
                    >= min_note_duration
              \/ (pc = "scan" /\ i < N /\ IsVoiced(pitch_hz)
                    /\ ForceCutVoiced)
      ]_vars

\* C19: at an unvoiced frame with an open run, the run is emitted if and only
\* if it lasts at least min_note_duration, whatever the forced-cut labels and
\* phonemes, and no run is open afterwards.
C19_UnvoicedGate ==
    [][ (pc = "scan" /\ i < N /\ ~IsVoiced(pitch_hz) /\ current_note # None)
           => /\ notes' = IF RunLongEnough
                          THEN Append(notes, ClosedRun) ELSE notes
              /\ current_note' = None
      ]_vars

\* The fill rule of C20 applied to frame k of the track f: the maximal
\* unvoiced run a..b around k, its boundary values, and the fill value.
FillRule(f, mg, k) ==
    LET a == CHOOSE x \in 1..k :
                 /\ \A y \in x..k : f[y] = 0
                 /\ x = 1 \/ f[x - 1] # 0
        b == CHOOSE x \in k..Len(f) :
                 /\ \A y \in k..x : f[y] = 0
                 /\ x = Len(f) \/ f[x + 1] # 0
        left == IF a > 1 THEN f[a - 1] ELSE 0
        right == IF b < Len(f) THEN f[b + 1] ELSE 0
    IN  IF b - a + 1 > mg \/ (left = 0 /\ right = 0) THEN 0
        ELSE IF left > 0 /\ right > 0 THEN (left + right) \div 2
        ELSE IF left > 0 THEN left
        ELSE right

\* C20: after bridging, every frame of a maximal unvoiced run of 1 to
\* max_gap_frames frames holds the fill value (the average of the two
\* boundary values, or the one voiced boundary value when the run starts or
\* ends the track), and the frames of every other unvoiced run are unvoiced.
C20_FillRule ==
    pc \notin {"bridge", "idle"} =>
        \A k \in 1..Len(pitch_data) :
            pitch_data[k] = 0 => f0[k] = FillRule(pitch_data, max_gap_frames, k)

\* The maximal unvoiced run of the track f around frame k.
RunStart(f, k) ==
    CHOOSE x \in 1..k : (\A y \in x..k : f[y] = 0) /\ (x = 1 \/ f[x - 1] # 0)
RunEnd(f, k) ==
    CHOOSE x \in k..Len(f) :
        (\A y \in k..x : f[y] = 0) /\ (x = Len(f) \/ f[x + 1] # 0)

\* The boundary frame values of that run that exist.
Boundaries(f, k) ==
    (IF RunStart(f, k) > 1 THEN {f[RunStart(f, k) - 1]} ELSE {})
    \cup (IF RunEnd(f, k) < Len(f) THEN {f[RunEnd(f, k) + 1]} ELSE {})

\* Frame k was unvoiced and the bridger wrote a value into it.
Filled(k) == pitch_data[k] = 0 /\ f0[k] # 0

\* Every filled frame is positive and lies between the boundary values of its
\* run; when the run has two boundary frames of one pitch, the filled frame
\* has that pitch.
FillBetween ==
    pc \notin {"bridge", "idle"} =>
        \A k \in 1..Len(pitch_data) :
            Filled(k) =>
               LET bs == Boundaries(pitch_data, k)
               IN  /\ f0[k] > 0
                   /\ \E lo \in bs : lo <= f0[k]
                   /\ \E hi \in bs : f0[k] <= hi
                   /\ \A p \in 45..81 :
                         (/\ Cardinality({RunStart(pitch_data, k) - 1,
                                          RunEnd(pitch_data, k) + 1}
                                           \cap DOMAIN pitch_data) = 2
                          /\ \A v \in bs : hz_to_midi_note(v) = p)
                         => hz_to_midi_note(f0[k]) = p

\* The frame times from the first frame of a bridged run with two boundary
\* frames of one pitch to the boundary frame after it.
BridgedTimes ==
    {(x - 1) * time_per_frame :
        x \in {x \in 1..Len(pitch_data) :
                 \E k \in 1..Len(pitch_data) :
                     /\ Filled(k)
                     /\ RunStart(pitch_data, k) > 1
                     /\ RunEnd(pitch_data, k) < Len(pitch_data)
                     /\ hz_to_midi_note(pitch_data[RunStart(pitch_data, k) - 1])
                          = hz_to_midi_note(pitch_data[RunEnd(pitch_data, k) + 1])
                     /\ RunStart(pitch_data, k) <= x
                     /\ x <= RunEnd(pitch_data, k) + 1}}

NoBoundaryInBridge ==
    pc = "done" =>
        \A k \in 1..Len(notes) :
            notes[k].start \notin BridgedTimes /\ notes[k].end \notin BridgedTimes

\* C28 as stated: under every configuration the filled values are positive,
\* between the boundary values and of the pitch the two boundary frames
\* share, and no note starts or ends inside or at the edges of a bridged run
\* whose boundary frames share their pitch.
C28_BridgeSeamlessAnyConfig == FillBetween /\ NoBoundaryInBridge

\* C28 amended: the same, the absence of note boundaries only when forced
\* cuts are disabled.
C28_BridgeSeamless ==
    FillBetween /\ (force_split_phonemes = {} => NoBoundaryInBridge)

\* A one-frame gap between 440 Hz and 466 Hz, both of pitch 69, is filled
\* with 453 Hz and one note covers the three frames.
C28_Witness ==
    /\ pc = "done"
    /\ force_split_phonemes = {}
    /\ \E k \in 2..(Len(pitch_data) - 1) :
          /\ Filled(k)
          /\ pitch_data[k - 1] = Hz(440) /\ pitch_data[k + 1] = Hz(466)
          /\ f0[k] = Hz(453)
          /\ \E j \in 1..Len(notes) :
                /\ notes[j].pitch = 69
                /\ notes[j].start <= (k - 2) * time_per_frame
                /\ notes[j].end >= (k + 1) * time_per_frame

\* _getenv_float("MERGE_GAP_S", 0.06), ms.
merge_gap_s == 60

\* C21: the notes create_midi_from_pitch returns hold no two consecutive
\* notes of equal pitch separated by a rest of at most MERGE_GAP_S.
C21_PrimaryMerged ==
    pc = "done" =>
        \A k \in 1..(Len(notes) - 1) :
            ~(/\ notes[k + 1].pitch = notes[k].pitch
              /\ notes[k + 1].start - notes[k].end <= merge_gap_s)

\* C30: with no forced cuts, two consecutive notes of the Segmenter that
\* abut have different pitches, and two consecutive notes of equal pitch are
\* at least one frame duration apart.
C30_AbutDiffer ==
    (force_split_phonemes = {} /\ pc \in {"scan", "merge", "done"}) =>
        \A k \in 1..(Len(notes) - 1) :
            /\ notes[k].end = notes[k + 1].start
                  => notes[k].pitch # notes[k + 1].pitch
            /\ notes[k].pitch = notes[k + 1].pitch
                  => notes[k + 1].start - notes[k].end >= time_per_frame

\* A finished scan without forced cuts that holds an abutting pair and an
\* equal-pitch pair one frame apart.
C30_Witness ==
    /\ pc = "done" /\ force_split_phonemes = {}
    /\ \E k \in 1..(Len(notes) - 1) :
          /\ notes[k].end = notes[k + 1].start
          /\ notes[k].pitch # notes[k + 1].pitch
    /\ \E k \in 1..(Len(notes) - 1) :
          /\ notes[k].pitch = notes[k + 1].pitch
          /\ notes[k + 1].start - notes[k].end = time_per_frame

\* The equal-pitch pair left when the short run of another pitch between
\* two runs is discarded.
C30_ShortRunDropped ==
    /\ pc = "done" /\ force_split_phonemes = {}
    /\ pitch_data = TrackShortRun
    /\ Len(notes) = 2
    /\ notes[1].pitch = notes[2].pitch
    /\ notes[2].start - notes[1].end = time_per_frame

----------------------------------------------------------------------------
(* Properties of the merger (specification SpecMerge)                      *)

\* C7: merging an already merged sequence changes nothing.
C7_Idempotent == m_pc = "twice" => m_twice = m_once

C7_Witness ==
    /\ m_pc = "twice"
    /\ Len(m_in) = MaxMergeNotes
    /\ Len(m_once) = 2

SortedByStart(ns) == \A k \in 1..(Len(ns) - 1) : ns[k].start <= ns[k + 1].start

\* The indices of the input notes that are not absorbed: the first note, and
\* every note that differs in pitch from the note before it or starts more than
\* gap after that note ends.
Kept(ns, gap) ==
    {k \in 1..Len(ns) :
        k = 1 \/ ns[k].pitch # ns[k - 1].pitch
              \/ ns[k].start - ns[k - 1].end > gap}

\* The last input note absorbed into the kept note k.
LastAbsorbed(ns, gap, k) ==
    CHOOSE l \in k..Len(ns) :
        /\ \A x \in (k + 1)..l : x \notin Kept(ns, gap)
        /\ l = Len(ns) \/ (l + 1) \in Kept(ns, gap)

\* The kept notes in order, each with the end of the last note it absorbed.
Coalesced(ns, gap) ==
    LET kept == Kept(ns, gap)
        nth(j) == CHOOSE k \in kept : Cardinality({x \in kept : x <= k}) = j
    IN  [j \in 1..Cardinality(kept) |->
            [ns[nth(j)] EXCEPT !.end = ns[LastAbsorbed(ns, gap, nth(j))].end]]

\* C8: for an input sorted by start, the output has no two adjacent notes of
\* equal pitch with next.start - prev.end <= gap, and it is the input with
\* every absorbed note removed and its end given to the absorbing note, all
\* other notes unchanged and in order.
C8_Merged ==
    (m_pc # "in" /\ SortedByStart(m_in)) =>
        /\ \A k \in 1..(Len(m_once) - 1) :
              ~(/\ m_once[k + 1].pitch = m_once[k].pitch
                /\ m_once[k + 1].start - m_once[k].end <= m_gap)
        /\ m_once = Coalesced(m_in, m_gap)

C8_Witness ==
    /\ m_pc = "once"
    /\ SortedByStart(m_in)
    /\ Len(m_in) = MaxMergeNotes
    /\ Len(m_once) = 2
    /\ m_once[1].end # m_in[1].end

----------------------------------------------------------------------------
(* Properties of the coverage analyzer (specification SpecCoverage)        *)

\* Sum over all notes of max(0, min(note.end, e) - max(note.start, s)).
SumOverlap(s, e) ==
    SumSeq([k \in 1..Len(midi_file) |->
               Max(0, Min(midi_file[k].end, e) - Max(midi_file[k].start, s))])

Intersects(s, e) ==
    \E k \in 1..Len(midi_file) : midi_file[k].start < e /\ midi_file[k].end > s

RatioInUnit(rec) ==
    LET r == rec.coverage_ratio
        total == rec.end - rec.start
    IN  /\ r.den > 0
        /\ 0 <= r.num /\ r.num <= r.den
        /\ r.num * total = Min(SumOverlap(rec.start, rec.end), total) * r.den
        /\ ~Intersects(rec.start, rec.end) => r.num = 0

\* C9: every coverage ratio the analyzer computes (word records, phoneme
\* records, missing segments) is in [0,1], equals min(overlap/(e-s), 1), and
\* is 0 when no note intersects the interval.
C9_RatioInUnit ==
    (a_pc = "done" /\ ~analysis_results.empty) =>
        /\ \A k \in 1..Len(analysis_results.word_coverage) :
              RatioInUnit(analysis_results.word_coverage[k])
        /\ \A k \in 1..Len(analysis_results.phoneme_coverage) :
              RatioInUnit(analysis_results.phoneme_coverage[k])
        /\ \A k \in 1..Len(analysis_results.missing_segments) :
              RatioInUnit(analysis_results.missing_segments[k])

\* Overlapping notes cover an interval more than once: the clamp is what
\* keeps the ratio at 1.
C9_Witness ==
    /\ a_pc = "done" /\ ~analysis_results.empty
    /\ \E k \in 1..Len(analysis_results.phoneme_coverage) :
          LET rec == analysis_results.phoneme_coverage[k]
          IN  /\ SumOverlap(rec.start, rec.end) > rec.end - rec.start
              /\ rec.coverage_ratio = Frac(1, 1)
    /\ \E k \in 1..Len(analysis_results.phoneme_coverage) :
          /\ analysis_results.phoneme_coverage[k].coverage_ratio.num = 0
          /\ ~analysis_results.phoneme_coverage[k].has_midi

SilenceLabels == {"SP", "AP", ""}

\* Coverage ratio min(overlap/(e-s), 1) below 0.10.
LowCoverage(iv) ==
    10 * Min(SumOverlap(iv[1], iv[2]), iv[2] - iv[1]) < iv[2] - iv[1]

ExpectedMissing ==
    SelectSeq(ts_file.phonemes,
              LAMBDA iv : iv[3] \notin SilenceLabels /\ LowCoverage(iv))

ReportedMissing ==
    IF analysis_results.empty THEN <<>> ELSE analysis_results.missing_segments

\* C10: once the analysis has run, whatever the NoteSequence (the empty one
\* included), the missing segments are exactly the voiced phoneme intervals
\* covered below 0.10, each with its start, end, label and ratio.  (Stated
\* for tiers without "AP" and "" labels, on which every reading of "voiced"
\* agrees.)
C10_MissingReported ==
    (/\ a_pc = "done"
     /\ \A k \in 1..Len(ts_file.phonemes) :
           ts_file.phonemes[k][3] \notin {"AP", ""})
    => /\ Len(ReportedMissing) = Len(ExpectedMissing)
       /\ \A k \in 1..Len(ReportedMissing) :
             /\ ReportedMissing[k].start = ExpectedMissing[k][1]
             /\ ReportedMissing[k].end = ExpectedMissing[k][2]
             /\ ReportedMissing[k].phoneme = ExpectedMissing[k][3]
             /\ RatioInUnit(ReportedMissing[k])

----------------------------------------------------------------------------
(* Properties of the micro-gap repairer (specification SpecRepair)         *)

NotesOverlap(a, b) == a.start < b.end /\ b.start < a.end

\* C11 as stated: after the pass every note of the file is still there, with
\* its pitch and start and an end no earlier, and the file has no fewer notes.
C11_NothingRemoved ==
    rep_pc = "done" =>
        /\ \A k \in 1..Len(rep_before) :
              \E j \in 1..Len(midi_file) :
                  /\ midi_file[j].pitch = rep_before[k].pitch
                  /\ midi_file[j].start = rep_before[k].start
                  /\ midi_file[j].end >= rep_before[k].end
        /\ Len(midi_file) >= Len(rep_before)

\* C11 amended: after the pass the span of every note of the file lies within
\* the span of a note of the same pitch (the note itself, or the note that
\* absorbed it in the final merge); the file has as many notes as before when
\* nothing is inserted, and at most one note more per inserted note.
C11_NothingUncovered ==
    rep_pc = "done" =>
        /\ \A k \in 1..Len(rep_before) :
              \E j \in 1..Len(midi_file) :
                  /\ midi_file[j].pitch = rep_before[k].pitch
                  /\ midi_file[j].start <= rep_before[k].start
                  /\ midi_file[j].end >= rep_before[k].end
        /\ rep_inserted = <<>> => Len(midi_file) = Len(rep_before)
        /\ Len(midi_file) <= Len(rep_before) + Len(rep_inserted)

\* An inserted note bridges two notes of its pitch: the final merge leaves
\* one note where there were two.
C11_Witness ==
    /\ rep_pc = "done"
    /\ Len(rep_inserted) = 1
    /\ Len(rep_before) = 2
    /\ Len(midi_file) = 1
    /\ midi_file[1].end = rep_before[2].end

\* C12: no inserted note intersects a note the file held before the pass.
C12_InsertedClear ==
    rep_pc = "done" =>
        \A k \in 1..Len(rep_inserted), j \in 1..Len(rep_before) :
            ~NotesOverlap(rep_inserted[k], rep_before[j])

InScenario ==
    /\ rep_pc = "done"
    /\ rep_before = ScenarioNotes
    /\ ts_file.phonemes = ScenarioPhonemes

\* C13 as stated: in the scenario the pass inserts pitch 62 over [5.0, 5.2)
\* and the resulting file contains that note.
C13_ScenarioKept ==
    InScenario =>
        /\ rep_inserted = << Note(62, 5000, 5200, insert_velocity) >>
        /\ \E j \in 1..Len(midi_file) :
              Span(midi_file[j]) = <<62, 5000, 5200>>

\* C13 amended: in the scenario the pass inserts pitch 62 over [5.0, 5.2)
\* unclipped, and the final merge joins it to the preceding note of pitch 62,
\* which then ends at 5.2; the following note is unchanged.
C13_ScenarioMerged ==
    InScenario =>
        /\ rep_inserted = << Note(62, 5000, 5200, insert_velocity) >>
        /\ midi_file = << Note(62, 4900, 5200, 80), Note(64, 5250, 5300, 80) >>
        /\ rep_ret = TRUE

C13_Witness ==
    /\ InScenario
    /\ Len(rep_inserted) = 1
    /\ Len(midi_file) = 2
    /\ midi_file[1].end = 5200

LongVoiced(iv) == iv[3] \notin SilenceLabels /\ iv[2] - iv[1] > max_fill_dur

\* C14: no note is inserted over a voiced phoneme interval longer than
\* max_fill_dur, and such an interval that no note of the file intersected
\* is among the missing segments of the analysis that follows the pass.
C14_LongNeverFilled ==
    \A x \in 1..Len(ts_file.phonemes) :
        LET iv == ts_file.phonemes[x]
        IN  LongVoiced(iv) =>
              /\ rep_pc = "done" =>
                    \A k \in 1..Len(rep_inserted) :
                        ~(rep_inserted[k].start < iv[2]
                            /\ iv[1] < rep_inserted[k].end)
              /\ (/\ a_pc = "done"
                  /\ \A j \in 1..Len(rep_before) :
                        ~(rep_before[j].start < iv[2]
                            /\ iv[1] < rep_before[j].end))
                 => \E k \in 1..Len(ReportedMissing) :
                        /\ ReportedMissing[k].start = iv[1]
                        /\ ReportedMissing[k].end = iv[2]
                        /\ ReportedMissing[k].phoneme = iv[3]

\* C17: a pass that inserts nothing leaves the file as it was and returns
\* False, every pass has an outcome (True or False), and it returns True only
\* after an insertion.
C17_NoInsertNoChange ==
    /\ rep_pc = "repair" =>
          RepairOutcome(midi_file,
                        InsertedNotes(midi_file, ts_file.phonemes)).ret
              \in BOOLEAN
    /\ rep_pc = "done" =>
          /\ rep_inserted = <<>> => (midi_file = rep_before /\ rep_ret = FALSE)
          /\ rep_ret = TRUE <=> rep_inserted # <<>>

\* Nothing inserted although a phoneme is usable, on a file whose two notes
\* the final merge would have joined.
C17_Witness ==
    /\ rep_pc = "done"
    /\ rep_inserted = <<>>
    /\ UsablePhones(ts_file.phonemes) # <<>>
    /\ Len(rep_before) = 2
    /\ SortAndMerge(rep_before) # rep_before
    /\ midi_file = rep_before
    /\ rep_ret = FALSE

----------------------------------------------------------------------------
(* Properties of the calibrator (specification SpecCalib)                  *)

\* C16 as stated: the result is D/N when the audio duration D is available
\* and 0.015 <= D/N <= 0.030, and the nominal value in every other case.
C16_EstimateOrNominal ==
    cal_pc = "done" =>
        IF /\ cal_wav.kind = "ok"
           /\ cal_frames >= 1
           /\ 15 * cal_frames <= cal_wav.dur
           /\ cal_wav.dur <= 30 * cal_frames
        THEN cal_ret = Frac(cal_wav.dur, 1000 * cal_frames)
        ELSE cal_ret = default_tpf

\* C16 amended: the same with D/max(1, N) for D/N, so that for a track
\* without frames the estimate is D itself.
C16_Calibrated ==
    cal_pc = "done" =>
        LET n == IF cal_frames >= 1 THEN cal_frames ELSE 1
        IN  IF /\ cal_wav.kind = "ok"
               /\ 15 * n <= cal_wav.dur
               /\ cal_wav.dur <= 30 * n
            THEN cal_ret = Frac(cal_wav.dur, 1000 * n)
            ELSE cal_ret = default_tpf

\* The estimate is taken: four frames over 0.09 s.
C16_Witness ==
    /\ cal_pc = "done"
    /\ cal_wav.kind = "ok"
    /\ cal_frames = MaxCalFrames
    /\ cal_ret = Frac(cal_wav.dur, 1000 * cal_frames)
    /\ cal_ret # default_tpf

\* C22: no coverage record and no missing segment of the analysis carries
\* the label "SP", "AP" or "", and every note the repairer inserts lies
\* within a phoneme interval carrying none of these labels.
C22_SilenceExcluded ==
    /\ (a_pc = "done" /\ ~analysis_results.empty) =>
          /\ \A k \in 1..Len(analysis_results.word_coverage) :
                analysis_results.word_coverage[k].label \notin SilenceLabels
          /\ \A k \in 1..Len(analysis_results.phoneme_coverage) :
                analysis_results.phoneme_coverage[k].label \notin SilenceLabels
          /\ \A k \in 1..Len(analysis_results.missing_segments) :
                analysis_results.missing_segments[k].phoneme
                    \notin SilenceLabels
    /\ rep_pc = "done" =>
          \A k \in 1..Len(rep_inserted) :
              \E x \in 1..Len(ts_file.phonemes) :
                  /\ ts_file.phonemes[x][3] \notin SilenceLabels
                  /\ ts_file.phonemes[x][1] <= rep_inserted[k].start
                  /\ rep_inserted[k].end <= ts_file.phonemes[x][2]

\* The phoneme intervals the repairer looks at: another label than "SP",
\* "AP", "", and 25 ms to 250 ms long.
Fillable(iv) ==
    /\ iv[3] \notin SilenceLabels
    /\ iv[2] - iv[1] >= min_phoneme_dur
    /\ iv[2] - iv[1] <= max_fill_dur

\* Sum over the notes of the file of their overlap with [s, e) below 10 ms.
Uncovered(iv) ==
    SumSeq([k \in 1..Len(rep_before) |->
               Max(0, Min(rep_before[k].end, iv[2])
                        - Max(rep_before[k].start, iv[1]))])
        < min_overlap_for_covered

\* The notes of the file ending at or before, and starting at or after, the
\* midpoint of the interval, and of these the nearest one on each side.
Preceding(iv) ==
    {k \in 1..Len(rep_before) : 2 * rep_before[k].end <= iv[1] + iv[2]}
Following(iv) ==
    {k \in 1..Len(rep_before) : 2 * rep_before[k].start >= iv[1] + iv[2]}
PrevNote(iv) ==
    rep_before[CHOOSE k \in Preceding(iv) :
                  \A q \in Preceding(iv) : rep_before[q].end <= rep_before[k].end]
NextNote(iv) ==
    rep_before[CHOOSE k \in Following(iv) :
                  \A q \in Following(iv) :
                      rep_before[k].start <= rep_before[q].start]

\* <<distance to the interval, pitch>> of the neighbours that exist.
Donors(iv) ==
    (IF Preceding(iv) # {}
     THEN {<<Max(0, iv[1] - PrevNote(iv).end), PrevNote(iv).pitch>>} ELSE {})
    \cup
    (IF Following(iv) # {}
     THEN {<<Max(0, NextNote(iv).start - iv[2]), NextNote(iv).pitch>>} ELSE {})

NearestDonors(iv) == {d \in Donors(iv) : \A c \in Donors(iv) : d[1] <= c[1]}

\* The notes inserted for the interval: the tier does not overlap and an
\* inserted note lies within its interval.
InsertedFor(iv) ==
    {k \in 1..Len(rep_inserted) :
        iv[1] <= rep_inserted[k].start /\ rep_inserted[k].end <= iv[2]}

\* C23: for every uncovered phoneme interval the repairer looks at, a note
\* inserted for it has the pitch of a neighbour at least distance, and none
\* is inserted when there is no neighbour or the least distance exceeds
\* max_neighbor_gap.
C23_NearestDonor ==
    rep_pc = "done" =>
        \A x \in 1..Len(ts_file.phonemes) :
            LET iv == ts_file.phonemes[x]
            IN  (Fillable(iv) /\ Uncovered(iv)) =>
                  /\ \A k \in InsertedFor(iv) :
                        \E d \in NearestDonors(iv) :
                            rep_inserted[k].pitch = d[2]
                  /\ (\/ Donors(iv) = {}
                      \/ \A d \in Donors(iv) : d[1] > max_neighbor_gap)
                     => InsertedFor(iv) = {}

\* Both neighbours exist with different pitches, the following one is the
\* nearer, and the inserted note has its pitch.
C23_Witness ==
    /\ rep_pc = "done"
    /\ \E x \in 1..Len(ts_file.phonemes) :
          LET iv == ts_file.phonemes[x]
          IN  /\ Fillable(iv) /\ Uncovered(iv)
              /\ Preceding(iv) # {} /\ Following(iv) # {}
              /\ PrevNote(iv).pitch # NextNote(iv).pitch
              /\ NearestDonors(iv)
                    = {<<Max(0, NextNote(iv).start - iv[2]), NextNote(iv).pitch>>}
              /\ \E k \in InsertedFor(iv) :
                    rep_inserted[k].pitch = NextNote(iv).pitch

\* The interval clipped to the neighbours that exist.
ClipStart(iv) ==
    IF Preceding(iv) # {} THEN Max(iv[1], PrevNote(iv).end) ELSE iv[1]
ClipEnd(iv) ==
    IF Following(iv) # {} THEN Min(iv[2], NextNote(iv).start) ELSE iv[2]

\* C24: every inserted note lies within a phoneme interval with a voiced
\* label and lasts at least min_phoneme_dur; a note inserted for the interval
\* [s, e) starts at max(s, prev.end) and ends at min(e, next.start), for the
\* neighbours that exist; nothing is inserted for an interval shorter than
\* min_phoneme_dur or clipped to less than min_phoneme_dur.
C24_Clipped ==
    rep_pc = "done" =>
        /\ \A k \in 1..Len(rep_inserted) :
              /\ rep_inserted[k].end - rep_inserted[k].start >= min_phoneme_dur
              /\ \E x \in 1..Len(ts_file.phonemes) :
                    /\ ts_file.phonemes[x][3] \notin SilenceLabels
                    /\ k \in InsertedFor(ts_file.phonemes[x])
        /\ \A x \in 1..Len(ts_file.phonemes) :
              LET iv == ts_file.phonemes[x]
              IN  /\ \A k \in InsertedFor(iv) :
                        /\ rep_inserted[k].start = ClipStart(iv)
                        /\ rep_inserted[k].end = ClipEnd(iv)
                  /\ (\/ iv[2] - iv[1] < min_phoneme_dur
                      \/ ClipEnd(iv) - ClipStart(iv) < min_phoneme_dur)
                     => InsertedFor(iv) = {}

\* A note clipped on both sides to exactly min_phoneme_dur is inserted.
C24_Witness ==
    /\ rep_pc = "done"
    /\ \E x \in 1..Len(ts_file.phonemes) :
          LET iv == ts_file.phonemes[x]
          IN  /\ ClipStart(iv) > iv[1]
              /\ ClipEnd(iv) - ClipStart(iv) = min_phoneme_dur
              /\ InsertedFor(iv) # {}

\* The same interval clipped to less than min_phoneme_dur: nothing inserted.
C24_Abstains ==
    /\ rep_pc = "done"
    /\ \E x \in 1..Len(ts_file.phonemes) :
          LET iv == ts_file.phonemes[x]
          IN  /\ Fillable(iv) /\ Uncovered(iv)
              /\ Donors(iv) # {}
              /\ ClipEnd(iv) - ClipStart(iv) < min_phoneme_dur
              /\ rep_inserted = <<>>

\* The velocity of every note of the primary pass (and of the files drawn).
primary_velocity == 80

AllRepNotes == rep_before \o rep_inserted

\* Two notes of one pitch at most 0.02 s apart (or overlapping).
NearSamePitch(a, b) ==
    /\ a.pitch = b.pitch
    /\ b.start - a.end <= repair_merge_gap
    /\ a.start - b.end <= repair_merge_gap

\* C25 as stated: after the pass every inserted note is in the file with
\* velocity 64, which is not the velocity 80 of the primary pass, and every
\* note of the file with velocity 64 is an inserted note.
C25_InsertedDistinct ==
    rep_pc = "done" =>
        /\ insert_velocity # primary_velocity
        /\ \A k \in 1..Len(rep_inserted) :
              /\ rep_inserted[k].velocity = insert_velocity
              /\ \E j \in 1..Len(midi_file) : midi_file[j] = rep_inserted[k]
        /\ \A j \in 1..Len(midi_file) :
              midi_file[j].velocity = insert_velocity
                 => \E k \in 1..Len(rep_inserted) :
                        midi_file[j] = rep_inserted[k]

\* C25 amended: every note is inserted with velocity 64, which is not 80; an
\* inserted note with no other note of its pitch within 0.02 s is in the file
\* as inserted; every note of the file has the pitch, start and velocity of
\* the first note merged into it, so a note of velocity 64 starts where an
\* inserted note starts and a note of velocity 80 where a note of the file
\* started.
C25_VelocityOfFirst ==
    rep_pc = "done" =>
        /\ insert_velocity # primary_velocity
        /\ \A k \in 1..Len(rep_inserted) :
              /\ rep_inserted[k].velocity = insert_velocity
              /\ (\A x \in 1..Len(AllRepNotes) :
                      x # Len(rep_before) + k
                         => ~NearSamePitch(AllRepNotes[x], rep_inserted[k]))
                 => \E j \in 1..Len(midi_file) :
                        midi_file[j] = rep_inserted[k]
        /\ \A j \in 1..Len(midi_file) :
              /\ midi_file[j].velocity = insert_velocity
                    => \E k \in 1..Len(rep_inserted) :
                           /\ rep_inserted[k].start = midi_file[j].start
                           /\ rep_inserted[k].pitch = midi_file[j].pitch
              /\ midi_file[j].velocity = primary_velocity
                    => \E k \in 1..Len(rep_before) :
                           /\ rep_before[k].start = midi_file[j].start
                           /\ rep_before[k].pitch = midi_file[j].pitch

\* One inserted note is kept as inserted, while the file also holds a note
\* of velocity 64 that absorbed a note of the primary pass or a note of
\* velocity 80 that absorbed an inserted one.
C25_Witness ==
    /\ rep_pc = "done"
    /\ Len(rep_inserted) = 2
    /\ \E j \in 1..Len(midi_file) : midi_file[j] = rep_inserted[2]
    /\ \A j \in 1..Len(midi_file) : midi_file[j] # rep_inserted[1]

\* C26: after a pass that inserted a note, the file is sorted by start, is
\* what the merger with MERGE_GAP_S makes of the sorted notes (those of the
\* file and the inserted ones), and holds no two consecutive notes of equal
\* pitch separated by at most MERGE_GAP_S.
C26_Remerged ==
    (rep_pc = "done" /\ rep_inserted # <<>>) =>
        /\ SortedByStart(midi_file)
        /\ midi_file = merge_short_splits(SortNotes(AllRepNotes), merge_gap_s)
        /\ \A k \in 1..(Len(midi_file) - 1) :
              ~(/\ midi_file[k + 1].pitch = midi_file[k].pitch
                /\ midi_file[k + 1].start - midi_file[k].end <= merge_gap_s)

\* The coverage ratio the analyzer computes for the interval iv on the
\* notes ns.
RatioOf(ns, iv) ==
    calculate_coverage_ratio(iv[1], iv[2],
                             OverlappingIn(MidiNoteDicts(ns), iv[1], iv[2]))

----------------------------------------------------------------------------
(* Properties of the pipeline (specification SpecPipeline)                 *)

StageOrder == <<"timestamps", "convert", "validate", "midi">>

\* The stage succeeded: it returned a value that is not falsy, and for the
\* first stage the TextGrid file was copied without an exception.
Succeeded(st) ==
    /\ stage_outcome[st] = "ok"
    /\ st = "timestamps" => stage_outcome.textgrid # "raise"

\* C27: the stages are called in the order timestamps, convert, validate,
\* midi, each only after the one before it succeeded; a call of the pipeline
\* always returns; after a failing stage no stage is called, success is False
\* and exactly one error is recorded; success is True only if all four stages
\* succeeded and midi_path is set.
C27_StagesInOrder ==
    /\ started = SubSeq(StageOrder, 1, Len(started))
    /\ \A k \in 1..(Len(started) - 1) : Succeeded(started[k])
    /\ p_pc \in {"timestamps", "convert", "validate", "midi", "returned"}
    /\ p_pc # "returned" =>
          /\ p_pc = StageOrder[Len(started) + 1]
          /\ \A k \in 1..Len(started) : Succeeded(started[k])
          /\ results.errors = <<>> /\ ~results.success
    /\ p_pc = "returned" =>
          /\ started # <<>>
          /\ ~Succeeded(started[Len(started)])
                => (~results.success /\ Len(results.errors) = 1)
          /\ results.success <=>
                 (started = StageOrder /\ \A k \in 1..4 : Succeeded(StageOrder[k]))
          /\ results.success => (results.midi_path /\ results.errors = <<>>)

\* The validation fails: three stages were called, the fourth never is.
C27_Witness ==
    /\ p_pc = "returned"
    /\ started = <<"timestamps", "convert", "validate">>
    /\ stage_outcome.validate = "falsy"
    /\ stage_outcome.midi = "ok"
    /\ ~results.success
    /\ results.errors = <<"validate">>

====